---- MODULE Spec2Model ----
(***************************************************************************)
(* State-synchronisation workflow of the sentiment-analysis client         *)
(* (frontend/src/App.js): the View State held by the App component, its    *)
(* event handlers and the continuations of its four kinds of network call. *)
(* The three remote services are the environment: they answer the calls    *)
(* in flight, in any order, and any call may fail.                         *)
(***************************************************************************)
EXTENDS Bags, FiniteSets, Integers, Sequences, TLC

VARIABLES
    tweet,      \* useState(''): the draft, a sequence of characters
    tweets,     \* useState([]): the local item list
    stats,      \* useState(null): <<>> is null, <<s>> a snapshot
    loading,    \* useState(false)
    error,      \* useState('')
    net,        \* the calls in flight, a bag of call records
    items,      \* the services' persisted items
    nextId      \* the next id the store assigns

vars == <<tweet, tweets, stats, loading, error, net, items, nextId>>
view == <<tweet, tweets, stats, loading, error>>

-----------------------------------------------------------------------------
(* Bounds *)

\* calls in flight at once, counting the two fetches a mutation may trigger
MaxInFlight == 4
\* items the store creates in one run
MaxId == 1

(* Program constants *)

\* tweet.length > 280, and the textarea's maxLength
TweetLimit == 280
maxLength == 280

EmptyMsg == "Please enter a tweet to analyze"
TooLongMsg == "Tweet must be 280 characters or less"
GenericMsg == "Failed to analyze tweet"
ConnectMsg == "Failed to connect to the server"

-----------------------------------------------------------------------------
(* Text *)

\* A string is held as its runs of equal characters, <<[ch, n], ...>>: each
\* run has n >= 1 and neighbouring runs differ in ch, so that a string has
\* one representation and 281 characters are one run, not 281 elements.

IsSpace(ch) == ch \in {" ", "\t", "\n"}

Run(ch, n) == IF n = 0 THEN <<>> ELSE <<[ch |-> ch, n |-> n]>>
Text(lead, body, trail) == Run(" ", lead) \o Run("a", body) \o Run(" ", trail)

\* the draft texts the handlers are exercised with: around the empty and the
\* 280-character boundaries, with and without surrounding whitespace
Drafts ==
    { Text(0, 0, 0),                        \* ""
      Text(1, 0, 0),                        \* " "
      Text(1, TweetLimit - 2, 1),           \* 280 characters, 278 trimmed
      Text(1, TweetLimit, 0),               \* 281 characters, 280 trimmed
      Text(0, TweetLimit + 1, 0),           \* 281 characters, none blank
      Text(TweetLimit + 1, 0, 0) }          \* 281 blanks

\* String.prototype.length
RECURSIVE Length(_)
Length(s) == IF s = <<>> THEN 0 ELSE Head(s).n + Length(Tail(s))

RECURSIVE TrimStart(_)
TrimStart(s) ==
    IF s # <<>> /\ IsSpace(Head(s).ch) THEN TrimStart(Tail(s)) ELSE s

RECURSIVE TrimEnd(_)
TrimEnd(s) ==
    IF s # <<>> /\ IsSpace(s[Len(s)].ch)
    THEN TrimEnd(SubSeq(s, 1, Len(s) - 1))
    ELSE s

\* String.prototype.trim: drops the leading and the trailing whitespace
Trim(s) == TrimEnd(TrimStart(s))

-----------------------------------------------------------------------------
(* Calls *)

None == <<>>
Some(x) == <<x>>

Call(op, text, id) == [op |-> op, text |-> text, id |-> id, resp |-> None]

Rejected == [rejected |-> TRUE, ok |-> FALSE, json |-> None]
Http(ok, json) == [rejected |-> FALSE, ok |-> ok, json |-> json]

Count(op, n) ==
    LET S == {c \in BagToSet(n) : c.op = op}
    IN  BagCardinality([c \in S |-> CopiesIn(c, n)])

Pending(n) == {c \in BagToSet(n) : c.resp = None}
Settled(op, n) == {c \in BagToSet(n) : c.op = op /\ c.resp # None}

Take(n, c) == n (-) SetToBag({c})
Put(n, c) == n (+) SetToBag({c})

ListCall == Call("list", <<>>, 0)
StatsCall == Call("stats", <<>>, 0)
AnalyzeCall(text) == Call("analyze", text, 0)
DeleteCall(tweetId) == Call("delete", <<>>, tweetId)

\* a mutation in flight may still trigger its two fetches: room is kept for them
HasRoom ==
    Count("list", net) + Count("stats", net)
        + 2 * (Count("analyze", net) + Count("delete", net) + 1) <= MaxInFlight

-----------------------------------------------------------------------------
(* The component *)

Refresh_ListOnly(n) == Put(n, ListCall)

\* fetchTweets(); fetchStats(): both requests leave before either is awaited
Refresh(n) == Put(Put(n, ListCall), StatsCall)

Init ==
    /\ tweet = <<>>
    /\ tweets = <<>>
    /\ stats = None
    /\ loading = FALSE
    /\ error = ""
    /\ net = Refresh(EmptyBag)
    /\ items = <<>>
    /\ nextId = 1

\* the stale error message cleared on every edit
onChange_ClearsError(text) ==
    /\ tweet' = text
    /\ error' = ""
    /\ UNCHANGED <<tweets, stats, loading, net, items, nextId>>

\* onChange={(e) => setTweet(e.target.value)}
onChange(text) ==
    /\ tweet' = text
    /\ UNCHANGED <<tweets, stats, loading, error, net, items, nextId>>

\* the values the textarea hands to onChange
TextareaValues == {d \in Drafts : Length(d) <= maxLength}

IsEmptyInput_Untrimmed(t) == t = <<>>

\* !tweet.trim()
IsEmptyInput(t) == Trim(t) = <<>>

IsTooLong_OffByOne(t) == Length(t) > TweetLimit + 1
IsTooLong_AtLimit(t) == Length(t) >= TweetLimit

\* tweet.length > 280
IsTooLong(t) == Length(t) > TweetLimit

\* analyzeTweet up to its await
analyzeTweet_ForgetsLoading ==
    /\ IF IsEmptyInput(tweet)
       THEN /\ error' = EmptyMsg
            /\ UNCHANGED net
       ELSE IF IsTooLong(tweet)
       THEN /\ error' = TooLongMsg
            /\ UNCHANGED net
       ELSE /\ HasRoom
            /\ error' = ""
            /\ net' = Put(net, AnalyzeCall(tweet))
    /\ UNCHANGED <<tweet, tweets, stats, loading, items, nextId>>

analyzeTweet ==
    /\ IF IsEmptyInput(tweet)
       THEN /\ error' = EmptyMsg
            /\ UNCHANGED <<loading, net>>
       ELSE IF IsTooLong(tweet)
       THEN /\ error' = TooLongMsg
            /\ UNCHANGED <<loading, net>>
       ELSE /\ HasRoom
            /\ loading' = TRUE
            /\ error' = ""
            /\ net' = Put(net, AnalyzeCall(tweet))
    /\ UNCHANGED <<tweet, tweets, stats, items, nextId>>

ErrorOf_Nullish(data) == IF "error" \in DOMAIN data THEN data.error ELSE GenericMsg
ErrorOf_Generic(data) == GenericMsg

\* data.error || 'Failed to analyze tweet'
ErrorOf(data) ==
    IF "error" \in DOMAIN data /\ data.error # "" THEN data.error ELSE GenericMsg

\* the analysed item inserted into the local list ahead of the refetch
analyzeTweetThen_Optimistic(c) ==
    /\ c \in Settled("analyze", net)
    /\ LET r == c.resp[1] IN
       IF r.rejected \/ r.json = None
       THEN /\ error' = ConnectMsg
            /\ net' = Take(net, c)
            /\ UNCHANGED <<tweet, tweets>>
       ELSE IF r.ok
       THEN /\ tweet' = <<>>
            /\ tweets' = Append(tweets, r.json[1])
            /\ net' = Refresh(Take(net, c))
            /\ UNCHANGED error
       ELSE /\ error' = ErrorOf(r.json[1])
            /\ net' = Take(net, c)
            /\ UNCHANGED <<tweet, tweets>>
    /\ loading' = FALSE
    /\ UNCHANGED <<stats, items, nextId>>

\* setLoading(false) left out of the success path
analyzeTweetThen_LoadingOnlyOnFailure(c) ==
    /\ c \in Settled("analyze", net)
    /\ LET r == c.resp[1] IN
       IF r.rejected \/ r.json = None
       THEN /\ error' = ConnectMsg
            /\ net' = Take(net, c)
            /\ loading' = FALSE
            /\ UNCHANGED tweet
       ELSE IF r.ok
       THEN /\ tweet' = <<>>
            /\ net' = Refresh(Take(net, c))
            /\ UNCHANGED <<error, loading>>
       ELSE /\ error' = ErrorOf(r.json[1])
            /\ net' = Take(net, c)
            /\ loading' = FALSE
            /\ UNCHANGED tweet
    /\ UNCHANGED <<tweets, stats, items, nextId>>

\* setLoading(false) at the end of the try block instead of in a finally
analyzeTweetThen_NoFinally(c) ==
    /\ c \in Settled("analyze", net)
    /\ LET r == c.resp[1] IN
       IF r.rejected \/ r.json = None
       THEN /\ error' = ConnectMsg
            /\ net' = Take(net, c)
            /\ UNCHANGED <<tweet, loading>>
       ELSE IF r.ok
       THEN /\ tweet' = <<>>
            /\ net' = Refresh(Take(net, c))
            /\ loading' = FALSE
            /\ UNCHANGED error
       ELSE /\ error' = ErrorOf(r.json[1])
            /\ net' = Take(net, c)
            /\ loading' = FALSE
            /\ UNCHANGED tweet
    /\ UNCHANGED <<tweets, stats, items, nextId>>

\* the refresh moved out of the success branch
analyzeTweetThen_AlwaysRefreshes(c) ==
    /\ c \in Settled("analyze", net)
    /\ LET r == c.resp[1] IN
       IF r.rejected \/ r.json = None
       THEN /\ error' = ConnectMsg
            /\ UNCHANGED tweet
       ELSE IF r.ok
       THEN /\ tweet' = <<>>
            /\ UNCHANGED error
       ELSE /\ error' = ErrorOf(r.json[1])
            /\ UNCHANGED tweet
    /\ net' = Refresh(Take(net, c))
    /\ loading' = FALSE
    /\ UNCHANGED <<tweets, stats, items, nextId>>

\* analyzeTweet from its await on: the response, or the rejection, of call c
analyzeTweetThen(c) ==
    /\ c \in Settled("analyze", net)
    /\ LET r == c.resp[1] IN
       IF r.rejected \/ r.json = None
       THEN /\ error' = ConnectMsg
            /\ net' = Take(net, c)
            /\ UNCHANGED tweet
       ELSE IF r.ok
       THEN /\ tweet' = <<>>
            /\ net' = Refresh(Take(net, c))
            /\ UNCHANGED error
       ELSE /\ error' = ErrorOf(r.json[1])
            /\ net' = Take(net, c)
            /\ UNCHANGED tweet
    /\ loading' = FALSE
    /\ UNCHANGED <<tweets, stats, items, nextId>>

\* deleteTweet up to its await
deleteTweet(tweetId) ==
    /\ HasRoom
    /\ net' = Put(net, DeleteCall(tweetId))
    /\ UNCHANGED <<tweet, tweets, stats, loading, error, items, nextId>>

\* the response.ok test left out
deleteTweetThen_IgnoresStatus(c) ==
    /\ c \in Settled("delete", net)
    /\ IF ~c.resp[1].rejected
       THEN net' = Refresh(Take(net, c))
       ELSE net' = Take(net, c)
    /\ UNCHANGED <<tweet, tweets, stats, loading, error, items, nextId>>

\* deleteTweet from its await on
deleteTweetThen(c) ==
    /\ c \in Settled("delete", net)
    /\ LET r == c.resp[1] IN
       IF ~r.rejected /\ r.ok
       THEN net' = Refresh(Take(net, c))
       ELSE net' = Take(net, c)
    /\ UNCHANGED <<tweet, tweets, stats, loading, error, items, nextId>>

\* the fetched list appended to the local one
fetchTweetsThen_Appends(c) ==
    /\ c \in Settled("list", net)
    /\ LET r == c.resp[1] IN
       IF r.rejected \/ r.json = None
       THEN UNCHANGED tweets
       ELSE IF r.ok
       THEN tweets' = tweets \o r.json[1].tweets
       ELSE UNCHANGED tweets
    /\ net' = Take(net, c)
    /\ UNCHANGED <<tweet, stats, loading, error, items, nextId>>

\* the catch surfaces the failure to the user
fetchTweetsThen_SurfacesError(c) ==
    /\ c \in Settled("list", net)
    /\ LET r == c.resp[1] IN
       IF r.rejected \/ r.json = None
       THEN /\ error' = ConnectMsg
            /\ UNCHANGED tweets
       ELSE IF r.ok
       THEN /\ tweets' = r.json[1].tweets
            /\ UNCHANGED error
       ELSE UNCHANGED <<tweets, error>>
    /\ net' = Take(net, c)
    /\ UNCHANGED <<tweet, stats, loading, items, nextId>>

\* fetchTweets from its await on
fetchTweetsThen(c) ==
    /\ c \in Settled("list", net)
    /\ LET r == c.resp[1] IN
       IF r.rejected \/ r.json = None
       THEN UNCHANGED tweets
       ELSE IF r.ok
       THEN tweets' = r.json[1].tweets
       ELSE UNCHANGED tweets
    /\ net' = Take(net, c)
    /\ UNCHANGED <<tweet, stats, loading, error, items, nextId>>

\* fetchStats from its await on
fetchStatsThen(c) ==
    /\ c \in Settled("stats", net)
    /\ LET r == c.resp[1] IN
       IF r.rejected \/ r.json = None
       THEN UNCHANGED stats
       ELSE IF r.ok
       THEN stats' = Some(r.json[1])
       ELSE UNCHANGED stats
    /\ net' = Take(net, c)
    /\ UNCHANGED <<tweet, tweets, loading, error, items, nextId>>

ButtonDisabled_IgnoresLoading == Trim(tweet) = <<>>

\* disabled={loading || !tweet.trim()}
ButtonDisabled == loading \/ Trim(tweet) = <<>>

\* the Analyze button
ClickAnalyze ==
    /\ ~ButtonDisabled
    /\ analyzeTweet

\* the delete button of a listed item
ClickDelete(i) ==
    /\ i \in 1..Len(tweets)
    /\ deleteTweet(tweets[i].id)

-----------------------------------------------------------------------------
(* The services and the transport *)

Ids == 1..MaxId

\* the classifier is opaque: a fixed function of the text
Classify(text) == IF Length(Trim(text)) % 2 = 0 THEN "positive" ELSE "negative"

NumberOf(sentiment, list) ==
    Cardinality({i \in 1..Len(list) : list[i].sentiment = sentiment})

StatsOf(list) ==
    [total_tweets |-> Len(list),
     sentiment_distribution |->
        [positive |-> [count |-> NumberOf("positive", list)],
         negative |-> [count |-> NumberOf("negative", list)]]]

Without(list, id) == SelectSeq(list, LAMBDA it : it.id # id)

ServiceError == [error |-> "service unavailable"]
\* failure bodies of Analyze: with a message, with an empty one, without one
AnalyzeErrors == {ServiceError, [error |-> ""], [message |-> "bad request"]}

Answer(c, r) == Put(Take(net, c), [c EXCEPT !.resp = Some(r)])

\* what the client gets of a response the service sent with this status and
\* body: the response, the response with a body that is not JSON, or nothing
Arrivals(ok, data) == {Http(ok, Some(data)), Http(ok, None), Rejected}

\* a service handles the request of call c and answers it
Serve(c) ==
    /\ c \in Pending(net)
    /\ UNCHANGED view
    /\ \/ /\ c.op = "analyze"
          /\ nextId <= MaxId
          /\ LET it == [id |-> nextId, text |-> c.text, sentiment |-> Classify(c.text)]
             IN  /\ items' = Append(items, it)
                 /\ \E r \in Arrivals(TRUE, it) : net' = Answer(c, r)
          /\ nextId' = nextId + 1
       \/ /\ c.op = "analyze"
          /\ \E e \in AnalyzeErrors : \E r \in Arrivals(FALSE, e) : net' = Answer(c, r)
          /\ UNCHANGED <<items, nextId>>
       \/ /\ c.op = "list"
          /\ net' = Answer(c, Http(TRUE, Some([tweets |-> items])))
          /\ UNCHANGED <<items, nextId>>
       \/ /\ c.op = "stats"
          /\ net' = Answer(c, Http(TRUE, Some(StatsOf(items))))
          /\ UNCHANGED <<items, nextId>>
       \/ /\ c.op \in {"list", "stats"}
          /\ \E r \in Arrivals(FALSE, ServiceError) : net' = Answer(c, r)
          /\ UNCHANGED <<items, nextId>>
       \/ /\ c.op = "delete"
          /\ \E i \in 1..Len(items) : items[i].id = c.id
          /\ items' = Without(items, c.id)
          /\ net' \in {Answer(c, Http(TRUE, None)), Answer(c, Rejected)}
          /\ UNCHANGED nextId
       \/ /\ c.op = "delete"
          /\ net' \in {Answer(c, Http(FALSE, None)), Answer(c, Rejected)}
          /\ UNCHANGED <<items, nextId>>

Environment ==
    \E c \in BagToSet(net) : Serve(c)

\* every answer held in n arrived intact, and every fetch it answers succeeded
Delivered(n) ==
    \A c \in BagToSet(n) :
        c.resp # None =>
            /\ ~c.resp[1].rejected
            /\ c.op # "delete" => c.resp[1].json # None
            /\ c.op \in {"list", "stats"} => c.resp[1].ok

\* the services behind a transport that loses and garbles nothing, with a
\* List and a Stats service that never fail
ReliableEnvironment ==
    \E c \in BagToSet(net) : Serve(c) /\ Delivered(net')

Continuations ==
    \/ \E c \in BagToSet(net) : analyzeTweetThen(c)
    \/ \E c \in BagToSet(net) : deleteTweetThen(c)
    \/ \E c \in BagToSet(net) : fetchTweetsThen(c)
    \/ \E c \in BagToSet(net) : fetchStatsThen(c)

-----------------------------------------------------------------------------
(* Specifications *)

\* the handlers invoked directly, in any state and with any text or id
Next ==
    \/ \E text \in Drafts : onChange(text)
    \/ analyzeTweet
    \/ \E tweetId \in Ids : deleteTweet(tweetId)
    \/ Continuations
    \/ Environment

Spec == Init /\ [][Next]_vars

\* the handlers invoked through the rendered controls only
NextUI ==
    \/ \E text \in TextareaValues : onChange(text)
    \/ ClickAnalyze
    \/ \E i \in 1..MaxId : ClickDelete(i)
    \/ Continuations
    \/ Environment

SpecUI == Init /\ [][NextUI]_vars

\* the rendered controls, with every List and Stats fetch succeeding
NextReliable ==
    \/ \E text \in TextareaValues : onChange(text)
    \/ ClickAnalyze
    \/ \E i \in 1..MaxId : ClickDelete(i)
    \/ Continuations
    \/ ReliableEnvironment

SpecReliable == Init /\ [][NextReliable]_vars

\* the Analyze service answers a call in flight
ServeAnalyze ==
    \E c \in BagToSet(net) : c.op = "analyze" /\ Serve(c)

\* the event loop runs analyzeTweet on from its await
ResumeAnalyze ==
    \E c \in BagToSet(net) : analyzeTweetThen(c)

\* the rendered controls, with every Analyze call completing and every
\* settled promise resumed on
SpecLive ==
    /\ Init
    /\ [][NextUI]_vars
    /\ WF_vars(ServeAnalyze)
    /\ WF_vars(ResumeAnalyze)

-----------------------------------------------------------------------------
(* Properties *)

\* calls of kind op issued by a step (negative when the step resumed on one)
Issued(op) == Count(op, net') - Count(op, net)

\* the step is a continuation resuming on the settled call c
Resumed(c) ==
    /\ c.resp # None
    /\ CopiesIn(c, net') = CopiesIn(c, net) - 1

\* the call ended as the client's success branch needs it: delivered, 2xx,
\* and (where the body is read) a body that is JSON
Succeeded(c) ==
    /\ c.resp # None
    /\ ~c.resp[1].rejected
    /\ c.resp[1].ok
    /\ (c.op # "delete" => c.resp[1].json # None)

Failed(c) == c.resp # None /\ ~Succeeded(c)

TrimmedLength(t) == Length(Trim(t))

\* C1: submitting a draft whose trimmed length is 0 issues no call, sets a
\* non-empty error message and leaves draft, items, stats and loading as
\* they were.
C1_EmptyDraftRejected ==
    [][(analyzeTweet /\ TrimmedLength(tweet) = 0) =>
          /\ net' = net
          /\ error' # ""
          /\ tweet' = tweet
          /\ tweets' = tweets
          /\ stats' = stats
          /\ loading' = loading]_vars

\* a whitespace-only draft was submitted and refused
C1_Witness ==
    /\ tweet = Text(1, 0, 0)
    /\ error = EmptyMsg
    /\ ~loading
    /\ Count("analyze", net) = 0

\* C2 as stated: submitting any draft longer than 280 characters, blank ones
\* included, issues no call and sets the length error message.
C2_AsStated ==
    [][(analyzeTweet /\ Length(tweet) > 280) =>
          /\ net' = net
          /\ error' = TooLongMsg
          /\ TooLongMsg # EmptyMsg]_vars

\* C2 amended: submitting a draft longer than 280 characters issues no call
\* and sets a validation error: the length error message when the draft has
\* a non-blank character, the empty-input message when it is all whitespace.
C2_TooLongRejected ==
    [][(analyzeTweet /\ Length(tweet) > 280) =>
          /\ net' = net
          /\ error' = (IF TrimmedLength(tweet) = 0 THEN EmptyMsg ELSE TooLongMsg)
          /\ TooLongMsg # EmptyMsg
          /\ loading' = loading]_vars

\* a 281-character draft was submitted and refused for its length
C2_Witness ==
    /\ tweet = Text(0, 281, 0)
    /\ error = TooLongMsg
    /\ ~loading
    /\ Count("analyze", net) = 0

\* C3 as stated: submitting a draft whose trimmed length is in 1..280 issues
\* exactly one Analyze call, whatever its untrimmed length.
C3_AsStated ==
    [][(analyzeTweet /\ TrimmedLength(tweet) \in 1..280) =>
          /\ Issued("analyze") = 1
          /\ BagCardinality(net') = BagCardinality(net) + 1]_vars

\* C3 amended: submitting a draft whose trimmed length is at least 1 and
\* whose untrimmed length is at most 280 issues exactly one Analyze call,
\* carrying the draft as typed, and no other call.
C3_ValidDraftSubmitted ==
    [][(analyzeTweet /\ TrimmedLength(tweet) >= 1 /\ Length(tweet) <= 280) =>
          /\ Issued("analyze") = 1
          /\ BagCardinality(net') = BagCardinality(net) + 1
          /\ \E c \in BagToSet(net') :
                /\ c.op = "analyze" /\ c.text = tweet /\ c.resp = None
                /\ CopiesIn(c, net') = CopiesIn(c, net) + 1]_vars

\* a draft of exactly 280 characters is on its way to Analyze
C3_Witness ==
    /\ Length(tweet) = 280
    /\ loading
    /\ error = ""
    /\ Count("analyze", net) = 1
    /\ \E c \in BagToSet(net) : c.op = "analyze" /\ c.text = tweet /\ c.resp = None

\* C4: the step that resumes on a successful Analyze call empties the draft
\* and issues exactly one List and one Stats fetch; no List or Stats fetch is
\* issued by any step other than one resuming on a successful mutation, so
\* none leaves before the success response is in or while the call is pending.
C4_RefreshAfterSuccess ==
    [][/\ \A c \in BagToSet(net) :
             (c.op = "analyze" /\ Resumed(c) /\ Succeeded(c)) =>
                 /\ tweet' = <<>>
                 /\ Issued("list") = 1
                 /\ Issued("stats") = 1
                 /\ BagCardinality(net') = BagCardinality(net) + 1
       /\ (Issued("list") > 0 \/ Issued("stats") > 0) =>
             \E c \in BagToSet(net) :
                 c.op \in {"analyze", "delete"} /\ Resumed(c) /\ Succeeded(c)]_vars

\* the Analyze call that created the item has been resumed on as a success:
\* its two fetches are in flight beside the two of the mount
C4_Witness ==
    /\ tweet = <<>>
    /\ ~loading
    /\ error = ""
    /\ Len(items) = 1
    /\ Count("analyze", net) = 0
    /\ Count("list", net) = 2
    /\ Count("stats", net) = 2

HasMessage(r) == r.json # None /\ "error" \in DOMAIN r.json[1]

\* C6 as stated: a failed Analyze call shows the service's error message when
\* the failure response carries one, and the generic message otherwise.
C6_AsStated ==
    [][\A c \in BagToSet(net) :
          (c.op = "analyze" /\ Resumed(c) /\ Failed(c)) =>
              error' = (IF ~c.resp[1].rejected /\ HasMessage(c.resp[1])
                        THEN c.resp[1].json[1].error
                        ELSE GenericMsg)]_vars

\* C6 amended: a failed Analyze call shows the service's error message when
\* the response is a non-2xx one whose JSON body carries a non-empty error,
\* the generic "Failed to analyze tweet" when that body carries none or an
\* empty one, and "Failed to connect to the server" when the call was
\* rejected or the body is not JSON; it shows no other message.
C6_FailureMessage ==
    [][\A c \in BagToSet(net) :
          (c.op = "analyze" /\ Resumed(c) /\ Failed(c)) =>
              LET r == c.resp[1] IN
              error' = (IF r.rejected \/ r.json = None THEN ConnectMsg
                        ELSE IF HasMessage(r) /\ r.json[1].error # ""
                        THEN r.json[1].error
                        ELSE GenericMsg)]_vars

\* the service's own message is on display
C6_Witness ==
    /\ error = "service unavailable"
    /\ ~loading
    /\ TrimmedLength(tweet) >= 1
    /\ Count("analyze", net) = 0

\* C7: the step that resumes on a successful Delete call issues exactly one
\* List and one Stats fetch; the step that resumes on a failed one (non-2xx or
\* rejected) issues no call; neither changes a View State field.
C7_DeleteRefresh ==
    [][\A c \in BagToSet(net) :
          (c.op = "delete" /\ Resumed(c)) =>
              /\ Issued("list") = (IF Succeeded(c) THEN 1 ELSE 0)
              /\ Issued("stats") = (IF Succeeded(c) THEN 1 ELSE 0)
              /\ Issued("analyze") = 0
              /\ Issued("delete") = -1
              /\ view' = view]_vars

\* the one item was created and deleted again, and the List fetch of the
\* mount and those of both refreshes are in flight
C7_Witness ==
    /\ items = <<>>
    /\ nextId > 1
    /\ Count("delete", net) = 0
    /\ Count("analyze", net) = 0
    /\ Count("list", net) = 3

\* C8 as stated: every Analyze or Delete call that completes, successfully or
\* not, is followed by a refresh.
C8_AsStated ==
    [][\A c \in BagToSet(net) :
          (c.op \in {"analyze", "delete"} /\ Resumed(c)) =>
              Issued("list") = 1 /\ Issued("stats") = 1]_vars

\* C8 amended: a refresh follows every mutation that succeeded and no other:
\* the step resuming on an Analyze or Delete call issues one List and one
\* Stats fetch when the call succeeded, and neither when it failed.
C8_RefreshOnlyOnSuccess ==
    [][\A c \in BagToSet(net) :
          (c.op \in {"analyze", "delete"} /\ Resumed(c)) =>
              /\ Succeeded(c) => Issued("list") = 1 /\ Issued("stats") = 1
              /\ Failed(c) => Issued("list") = 0 /\ Issued("stats") = 0]_vars

\* a submission was refused by the service and nothing is being fetched
C8_Witness ==
    /\ error = GenericMsg
    /\ ~loading
    /\ net = EmptyBag
    /\ tweet # <<>>

\* C9: the step that resumes on a List fetch replaces the items by the
\* fetched list when the fetch succeeded and leaves them when it failed; it
\* never touches the stats; likewise for a Stats fetch and the stats; and
\* neither changes the draft, the error message or loading, or issues a call.
C9_FetchesIndependent ==
    [][\A c \in BagToSet(net) :
          /\ (c.op = "list" /\ Resumed(c)) =>
                /\ tweets' = (IF Succeeded(c) THEN c.resp[1].json[1].tweets ELSE tweets)
                /\ stats' = stats
          /\ (c.op = "stats" /\ Resumed(c)) =>
                /\ stats' = (IF Succeeded(c) THEN Some(c.resp[1].json[1]) ELSE stats)
                /\ tweets' = tweets
          /\ (c.op \in {"list", "stats"} /\ Resumed(c)) =>
                /\ error' = error
                /\ loading' = loading
                /\ tweet' = tweet
                /\ BagCardinality(net') = BagCardinality(net) - 1]_vars

\* the stats of the one stored item are shown while the list, whose fetch
\* failed, still is the initial one
C9_Witness ==
    /\ stats = Some(StatsOf(items))
    /\ Len(items) = 1
    /\ tweets = <<>>
    /\ net = EmptyBag
    /\ error = ""

\* C10: through the rendered controls at most one Analyze call is in flight,
\* and loading is true while it is: the button is disabled until it is
\* resumed on.
C10_OneSubmissionInFlight ==
    /\ Count("analyze", net) <= 1
    /\ Count("analyze", net) = 1 => loading

\* a submission is in flight while the draft, typed anew, is submittable
C10_Witness ==
    /\ loading
    /\ Count("analyze", net) = 1
    /\ TrimmedLength(tweet) >= 1

\* the response carries what the View State already shows
Shown(c) ==
    /\ Succeeded(c)
    /\ c.op = "list" => c.resp[1].json[1].tweets = tweets
    /\ c.op = "stats" => Some(c.resp[1].json[1]) = stats

\* C11: a refresh repeated on an unchanged backend changes nothing: the step
\* that resumes on a List or Stats fetch whose response carries the list, or
\* the stats, that an earlier fetch installed leaves the whole View State as
\* it was.
C11_RefreshIdempotent ==
    [][\A c \in BagToSet(net) :
          (c.op \in {"list", "stats"} /\ Resumed(c) /\ Shown(c)) =>
              view' = view]_vars

\* the List fetches of the mount and of the one successful submission have
\* both been resumed on, and the list shown is the stored one
C11_Witness ==
    /\ tweets = items
    /\ Len(items) = 1
    /\ stats = Some(StatsOf(items))
    /\ ~loading
    /\ error = ""
    /\ tweet = <<>>
    /\ net = EmptyBag

\* C12: the items and the stats change only by a step that resumes on a
\* successful List, respectively Stats, fetch, and then become exactly what
\* the response carries; they start as the empty list and as absent.
C12_OnlyServerData ==
    [][/\ tweets' # tweets =>
             \E c \in BagToSet(net) :
                 /\ c.op = "list" /\ Resumed(c) /\ Succeeded(c)
                 /\ tweets' = c.resp[1].json[1].tweets
       /\ stats' # stats =>
             \E c \in BagToSet(net) :
                 /\ c.op = "stats" /\ Resumed(c) /\ Succeeded(c)
                 /\ stats' = Some(c.resp[1].json[1])]_vars

\* a fetched list and fetched stats are shown while a submission is in flight
C12_Witness ==
    /\ tweets # <<>>
    /\ stats # None
    /\ stats[1].total_tweets = 1
    /\ loading
    /\ Count("analyze", net) = 1

\* C16: an edit of the draft issues no call and leaves items, stats, loading
\* and the error message as they were; the error message is emptied only by
\* a submission that passes validation and issues its Analyze call.
C16_EditChangesDraftOnly ==
    [][/\ (\E text \in Drafts : onChange(text)) =>
             /\ net' = net
             /\ tweets' = tweets
             /\ stats' = stats
             /\ loading' = loading
             /\ error' = error
       /\ (error # "" /\ error' = "") =>
             /\ Issued("analyze") = 1
             /\ TrimmedLength(tweet) >= 1
             /\ tweet' = tweet]_vars

\* a submittable draft was typed after a refusal, whose message still shows
C16_Witness ==
    /\ error = EmptyMsg
    /\ TrimmedLength(tweet) >= 1
    /\ Length(tweet) <= 280
    /\ ~loading
    /\ Count("analyze", net) = 0

\* C13: with every List and Stats fetch succeeding, whenever no call is in
\* flight the items shown are the stored ones and the stats shown are the
\* stats of the stored ones, whatever the order the responses arrived in.
C13_ConvergedAtRest ==
    net = EmptyBag =>
        /\ tweets = items
        /\ stats = Some(StatsOf(items))

\* C18: with every List and Stats fetch succeeding, whenever no call is in
\* flight and stats are shown, their total is the number of items shown.
C18_TotalMatchesList ==
    (net = EmptyBag /\ stats # None) =>
        stats[1].total_tweets = Len(tweets)

\* C14, as stated: when the step that resumes on a successful Analyze call
\* turns loading false, the refresh has completed: no List fetch is in
\* flight and the analysed item is in the local list.
C14_AsStated ==
    [][\A c \in BagToSet(net) :
          (c.op = "analyze" /\ Resumed(c) /\ Succeeded(c) /\ ~loading') =>
              /\ Count("list", net') = 0
              /\ \E i \in 1..Len(tweets') : tweets'[i] = c.resp[1].json[1]]_vars

\* C14: the step that resumes on a successful Analyze call turns loading
\* false and issues the refresh in one: after it the List and the Stats
\* fetch it issued are unanswered and the items and the stats are as before.
C14_LoadingClearedAtIssue ==
    [][\A c \in BagToSet(net) :
          (c.op = "analyze" /\ Resumed(c) /\ Succeeded(c)) =>
              /\ loading' = FALSE
              /\ ListCall \in Pending(net')
              /\ StatsCall \in Pending(net')
              /\ CopiesIn(ListCall, net') = CopiesIn(ListCall, net) + 1
              /\ CopiesIn(StatsCall, net') = CopiesIn(StatsCall, net) + 1
              /\ tweets' = tweets
              /\ stats' = stats]_vars

\* loading is false after the one successful submission while the local list
\* is still the initial one and the refresh is unanswered
C14_Witness ==
    /\ ~loading
    /\ error = ""
    /\ tweet = <<>>
    /\ Len(items) = 1
    /\ tweets = <<>>
    /\ Count("analyze", net) = 0
    /\ Count("delete", net) = 0
    /\ ListCall \in Pending(net)
    /\ StatsCall \in Pending(net)

\* C15: with every Analyze call completing, loading always becomes false
\* again; and a submission made through the button after a failure issues a
\* new Analyze call, sets loading and empties the error message.
C15_ReturnsToIdle ==
    /\ loading ~> ~loading
    /\ [][(ClickAnalyze /\ error # "") =>
             /\ Issued("analyze") = 1
             /\ loading'
             /\ error' = ""]_vars

\* a failed submission was handled and the draft is kept for the retry
C15_Witness ==
    /\ ~loading
    /\ error \in {GenericMsg, ConnectMsg}
    /\ Count("analyze", net) = 0
    /\ TrimmedLength(tweet) >= 1
    /\ HasRoom

\* C17: through the rendered controls, loading is true in exactly the states
\* where an Analyze call is in flight, issued and not yet resumed on.
C17_LoadingIffAnalyzeInFlight ==
    loading <=> Count("analyze", net) = 1

\* loading is false while a remove, a List fetch and a Stats fetch are in
\* flight and no Analyze call is
C17_Witness ==
    /\ ~loading
    /\ Count("analyze", net) = 0
    /\ Count("delete", net) >= 1
    /\ Count("list", net) >= 1
    /\ Count("stats", net) >= 1

====
